---- MODULE Spec2Model ----
(***************************************************************************)
(* Model of the caliper connector base class (BlockchainConnector) and of  *)
(* the FISCO BCOS connector derived from it (FiscoBcosConnector).          *)
(*                                                                         *)
(* One connector instance is modelled.  Every public method is one action; *)
(* an async method that suspends at an await has a second action for its   *)
(* continuation.  The strategy collaborators                               *)
(* (invokeSmartContractImpl.run, ...) are the environment: each dispatched *)
(* run is a pending promise that the environment later resolves or         *)
(* rejects.                                                                *)
(***************************************************************************)
EXTENDS Integers, Sequences, FiniteSets

\* ------------------------------------------------------------------ bounds
\* Number of method calls made on the connector in one behaviour of Spec.
MaxCalls == 2
\* Number of method calls made in one behaviour of SpecAdmin, where no
\* strategy is run.
MaxAdminCalls == 4
\* Number of strategy runs dispatched in one behaviour.
MaxRuns == 3
\* Longest batch handed to invokeSmartContract.
MaxBatch == 3
\* Largest worker count handed to prepareWorkerArguments.
MaxWorkers == 2

VARIABLES
    cls,                \* class of the instance (which methods are overridden)
    workerIndex,        \* BlockchainConnector.workerIndex
    bcType,             \* BlockchainConnector.bcType
    fiscoBcosSettings,  \* FiscoBcosConnector.fiscoBcosSettings
    workspaceRoot,      \* FiscoBcosConnector.workspaceRoot
    context,            \* FiscoBcosConnector.context
    nextObj,            \* identity of the next object allocated by `{}`
    events,             \* what the EventEmitter has emitted, in order
    calls,              \* every method call made so far, with its progress
    runs,               \* every strategy run dispatched so far
    budget              \* how many method calls the harness makes

vars == <<cls, workerIndex, bcType, fiscoBcosSettings, workspaceRoot,
          context, nextObj, events, calls, runs, budget>>

\* What the constructors set and no method assigns; the harness's budget.
identity ==
    <<cls, workerIndex, bcType, fiscoBcosSettings, workspaceRoot, budget>>

\* --------------------------------------------------------------- JS values
\* A JavaScript value: t is its type, s its characters (string), n its
\* number (number), its object identity (object) or the run that produced
\* it (TxResult), a its elements (array).
JSUndefined == [t |-> "undefined", s |-> "", n |-> 0, a |-> <<>>]
JSNull == [t |-> "null", s |-> "", n |-> 0, a |-> <<>>]
JSString(s) == [t |-> "string", s |-> s, n |-> 0, a |-> <<>>]
JSNumber(n) == [t |-> "number", s |-> "", n |-> n, a |-> <<>>]
JSArray(a) == [t |-> "array", s |-> "", n |-> 0, a |-> a]
\* An object without own properties, `{}`; id tells two of them apart.
JSObject(id) == [t |-> "object", s |-> "", n |-> id, a |-> <<>>]
\* The value a strategy run resolves with.
TxResult(r) == [t |-> "TxResult", s |-> "", n |-> r, a |-> <<>>]

Digits == <<"0", "1", "2", "3", "4", "5", "6", "7", "8", "9">>

RECURSIVE Decimal(_)
Decimal(n) ==
    IF n < 10 THEN Digits[n + 1]
    ELSE Decimal(n \div 10) \o Digits[(n % 10) + 1]

\* value.toString() throws a TypeError on null and undefined.
CanToString(v) == v.t \notin {"null", "undefined"}

\* value.toString() of a string or a non-negative integer.
toString(v) ==
    IF v.t = "string" THEN v.s
    ELSE IF v.n < 0 THEN "-" \o Decimal(0 - v.n)
    ELSE Decimal(v.n)

\* ------------------------------------------------------------------ errors
NoError == [name |-> "", message |-> "", run |-> 0]

TypeError == [name |-> "TypeError",
              message |-> "Cannot read properties of null (reading 'toString')",
              run |-> 0]

\* The reason strategy run r rejects with.
RunError(r) == [name |-> "Error", message |-> "run failed", run |-> r]

\* What `this.emit(...)` throws in strict mode when `this` is undefined.
EmitTypeError ==
    [name |-> "TypeError",
     message |-> "Cannot read properties of undefined (reading 'emit')",
     run |-> 0]

NotImplemented(op) ==
    [name |-> "Error",
     message |-> op \o " is not implemented for this blockchain connector",
     run |-> 0]

\* ----------------------------------------------------------------- classes
Base == "BlockchainConnector"
Fisco == "FiscoBcosConnector"

\* The methods of BlockchainConnector that FiscoBcosConnector overrides.
FiscoOverrides ==
    {"init", "installSmartContract", "getContext", "releaseContext",
     "invokeSmartContract", "queryState"}

\* The class whose body runs when `op` is called on an instance of class c.
Resolve(c, op) == IF c = Fisco /\ op \in FiscoOverrides THEN Fisco ELSE Base

\* ------------------------------------------------------------------ events
TxsSubmitted == "txsSubmitted"
TxsFinished == "txsFinished"

\* One emitted event: its name, its argument and (history) the call whose
\* code emitted it.
Event(name, arg, c) == [name |-> name, arg |-> arg, by |-> c]

\* _onTxsSubmitted raising the wrong event (Events.TxsFinished).
OnTxsSubmitted_asFinished(evs, c, count) ==
    Append(evs, Event(TxsFinished, JSNumber(count), c))

\* BlockchainConnector._onTxsSubmitted, run by call c on the event log evs.
OnTxsSubmitted(evs, c, count) ==
    Append(evs, Event(TxsSubmitted, JSNumber(count), c))

\* BlockchainConnector._onTxsFinished, run by call c on the event log evs.
OnTxsFinished(evs, c, txResults) ==
    Append(evs, Event(TxsFinished, txResults, c))

\* ------------------------------------------------------ argument normalizer
TransactionType == "transaction_type"

\* An argument map is the sequence of its [key, value] entries in the order
\* `for (let key in arg)` enumerates them.
Entry(k, v) == [key |-> k, value |-> v]

\* The for-in loop without its `key === 'transaction_type'` branch: every
\* value is pushed to fcArgs.
RECURSIVE NormalizeFrom_allPositional(_, _, _, _)
NormalizeFrom_allPositional(arg, i, fcn, fcArgs) ==
    IF i > Len(arg) THEN [threw |-> FALSE, fcn |-> fcn, fcArgs |-> fcArgs]
    ELSE IF ~CanToString(arg[i].value)
    THEN [threw |-> TRUE, fcn |-> fcn, fcArgs |-> fcArgs]
    ELSE NormalizeFrom_allPositional(arg, i + 1, fcn,
             Append(fcArgs, JSString(toString(arg[i].value))))

\* The for-in loop of invokeSmartContract from entry i on, with the fcn and
\* fcArgs collected so far.  threw: a toString() call raised a TypeError.
RECURSIVE NormalizeFrom(_, _, _, _)
NormalizeFrom(arg, i, fcn, fcArgs) ==
    IF i > Len(arg) THEN [threw |-> FALSE, fcn |-> fcn, fcArgs |-> fcArgs]
    ELSE IF ~CanToString(arg[i].value)
    THEN [threw |-> TRUE, fcn |-> fcn, fcArgs |-> fcArgs]
    ELSE IF arg[i].key = TransactionType
    THEN NormalizeFrom(arg, i + 1, JSString(toString(arg[i].value)), fcArgs)
    ELSE NormalizeFrom(arg, i + 1, fcn,
                       Append(fcArgs, JSString(toString(arg[i].value))))

\* `let fcn = null; let fcArgs = [];` and the for-in loop over one element.
Normalize(arg) == NormalizeFrom(arg, 1, JSNull, <<>>)

\* ------------------------------------------------------------------ inputs
\* {transaction_type: 'transferFunds', to: 'X', amount: '10'}
ArgTransfer ==
    <<Entry(TransactionType, JSString("transferFunds")),
      Entry("to", JSString("X")), Entry("amount", JSString("10"))>>
\* {key: 'K', transaction_type: 'get'}
ArgGet ==
    <<Entry("key", JSString("K")), Entry(TransactionType, JSString("get"))>>
\* {account: 'Z', amount: 25}
ArgNoType == <<Entry("account", JSString("Z")), Entry("amount", JSNumber(25))>>
\* {transaction_type: 'open', account: null}
ArgNull ==
    <<Entry(TransactionType, JSString("open")), Entry("account", JSNull)>>

ArgMaps == <<ArgTransfer, ArgGet, ArgNoType, ArgNull>>

\* The batch of len consecutive argument maps of ArgMaps (cyclically) that
\* starts with ArgMaps[start].
Window(start, len) ==
    [i \in 1..len |-> ArgMaps[((start + i - 2) % Len(ArgMaps)) + 1]]

\* The arguments of one call; a method reads the fields it has parameters for.
Input(isArray, items, key, fcn, number) ==
    [isArray |-> isArray, items |-> items, key |-> key, fcn |-> fcn,
     number |-> number]

NoInput == Input(FALSE, <<>>, JSUndefined, JSUndefined, 0)

\* invokeData: one argument map (ArgGet, or ArgNull, which does not
\* normalize), or an array of 0..MaxBatch argument maps: the batches that
\* start with ArgTransfer, ArgNoType or ArgNull, so that the element that
\* does not normalize comes last, in the middle and first.
InvokeInputs ==
    {Input(FALSE, <<arg>>, JSUndefined, JSUndefined, 0) :
        arg \in {ArgGet, ArgNull}}
    \cup {Input(TRUE, Window(st, len), JSUndefined, JSUndefined, 0) :
            st \in {1, 3, 4}, len \in 0..MaxBatch}

\* args of querySmartContract and of the default invokeSmartContract: one
\* argument map, or an array of one.
QueryArgs ==
    {Input(a, <<ArgGet>>, JSUndefined, JSUndefined, 0) : a \in BOOLEAN}

\* (key, fcn) of queryState.
QueryInputs == {Input(FALSE, <<>>, JSString("K"), JSString("get"), 0)}

\* number of prepareWorkerArguments.
WorkerInputs ==
    {Input(FALSE, <<>>, JSUndefined, JSUndefined, n) : n \in 0..MaxWorkers}

\* (arg, file) of generateRawTransaction: the argument map in items, the
\* file path in key.
GenerateInputs ==
    {Input(FALSE, <<ArgTransfer>>, JSString("/tmp/tx.raw"), JSUndefined, 0)}

\* transactions of sendRawTransaction, in key; its context parameter is
\* never used by the method.
SendInputs ==
    {Input(FALSE, <<>>, JSArray(<<JSString("0xf8a1")>>), JSUndefined, 0)}

ContractID == "helloworld"

\* ------------------------------------------------------- calls and promises
\* Promise.all(promises): pending, fulfilled, or rejected with the reason of
\* the first promise that rejected; "none" before it is created.  overtaken
\* (history): one of the promises was fulfilled while a promise before it
\* in the array was still pending.
All(state, reason) ==
    [state |-> state, reason |-> reason, overtaken |-> FALSE]

\* One call of a method: class is the class whose body runs; pc is "await"
\* while the body is suspended at its await, and "resolved" or "rejected"
\* once the promise it returned has settled, with value or error; promises
\* are the runs it dispatched; logged is what it gave to commLogger.error.
Call(op, class, input, pc, promises, all, value, error, logged) ==
    [op |-> op, class |-> class, input |-> input, pc |-> pc,
     promises |-> promises, all |-> all, value |-> value, error |-> error,
     logged |-> logged]

\* A call whose body returned value without suspending.
Returned(op, class, input, value) ==
    Call(op, class, input, "resolved", <<>>, All("none", NoError), value,
         NoError, <<>>)

\* A call whose body threw error without suspending or logging.
Threw(op, class, input, error) ==
    Call(op, class, input, "rejected", <<>>, All("none", NoError),
         JSUndefined, error, <<>>)

\* One strategy run: the promise impl.run(...) returned, with the arguments
\* it was given and (history) the call that dispatched it, the number of
\* events that had been emitted when it was dispatched, and the notifier
\* calls the strategy made through the references it was handed.
Run(c, impl, contractID, fcn, args, readOnly, seen) ==
    [by |-> c, impl |-> impl, settings |-> fiscoBcosSettings,
     contractID |-> contractID, fcn |-> fcn, args |-> args,
     workspaceRoot |-> workspaceRoot, readOnly |-> readOnly,
     state |-> "pending", seen |-> seen, notified |-> <<>>]

CanCall == Len(calls) < budget

\* The id the next call gets.
NewCall == Len(calls) + 1

Settled(r) == runs[r].state # "pending"

\* -------------------------------------------------------------------- Init
\* The state after `new BlockchainConnector(workerIndex, bcType)` or
\* `new FiscoBcosConnector(workerIndex, bcType)`.
Constructed(indexes) ==
    /\ cls \in {Base, Fisco}
    /\ workerIndex \in indexes
    /\ bcType = "fisco-bcos"
    /\ fiscoBcosSettings =
         IF cls = Fisco THEN "networkConfig['fisco-bcos']" ELSE "undefined"
    /\ workspaceRoot = IF cls = Fisco THEN "/workspace" ELSE "undefined"
    /\ context = JSUndefined
    /\ nextObj = 1
    /\ events = <<>>
    /\ calls = <<>>
    /\ runs = <<>>

\* A worker's connector, driven for MaxCalls calls.
Init == Constructed({0}) /\ budget = MaxCalls

\* A manager's or a worker's connector, driven for MaxAdminCalls calls.
InitAdmin == Constructed({-1, 0}) /\ budget = MaxAdminCalls

\* ------------------------------------------------- BlockchainConnector body
\* A default method that only throws: the promise of the async method is
\* rejected with the error, nothing else changes.
Unimplemented(op, input) ==
    /\ CanCall
    /\ Resolve(cls, op) = Base
    /\ calls' = Append(calls, Threw(op, Base, input, NotImplemented(op)))
    /\ UNCHANGED <<identity, context, nextObj, events, runs>>

\* getType: `return this.bcType;`.  A read that changes nothing, so an
\* operator on the state rather than an action.
getType == JSString(bcType)

\* getWorkerIndex: `return this.workerIndex;`.
getWorkerIndex == JSNumber(workerIndex)

Base_init == Unimplemented("init", NoInput)

Base_installSmartContract == Unimplemented("installSmartContract", NoInput)

\* The loop of prepareWorkerArguments running while i <= number.
RECURSIVE PrepareLoop_offByOne(_, _, _)
PrepareLoop_offByOne(number, i, result) ==
    IF i <= number
    THEN PrepareLoop_offByOne(number, i + 1, Append(result, JSObject(0)))
    ELSE result

\* The loop of prepareWorkerArguments from index i on: result[i] = {}.
RECURSIVE PrepareLoop(_, _, _)
PrepareLoop(number, i, result) ==
    IF i < number THEN PrepareLoop(number, i + 1, Append(result, JSObject(0)))
    ELSE result

Base_prepareWorkerArguments ==
    \E input \in WorkerInputs :
        /\ CanCall
        /\ Resolve(cls, "prepareWorkerArguments") = Base
        /\ calls' = Append(calls,
               Returned("prepareWorkerArguments", Base, input,
                        JSArray(PrepareLoop(input.number, 0, <<>>))))
        /\ UNCHANGED <<identity, context, nextObj, events, runs>>

Base_getContext == Unimplemented("getContext", NoInput)

Base_releaseContext == Unimplemented("releaseContext", NoInput)

Base_invokeSmartContract ==
    \E input \in QueryArgs : Unimplemented("invokeSmartContract", input)

\* querySmartContract throwing the message of queryState.
Base_querySmartContract_asQueryState ==
    \E input \in QueryArgs :
        /\ CanCall
        /\ Resolve(cls, "querySmartContract") = Base
        /\ calls' = Append(calls, Threw("querySmartContract", Base, input,
                                        NotImplemented("queryState")))
        /\ UNCHANGED <<identity, context, nextObj, events, runs>>

Base_querySmartContract ==
    \E input \in QueryArgs : Unimplemented("querySmartContract", input)

\* queryState throwing the message of querySmartContract.
Base_queryState_asQuerySmartContract ==
    \E input \in QueryInputs :
        /\ CanCall
        /\ Resolve(cls, "queryState") = Base
        /\ calls' = Append(calls, Threw("queryState", Base, input,
                                        NotImplemented("querySmartContract")))
        /\ UNCHANGED <<identity, context, nextObj, events, runs>>

Base_queryState ==
    \E input \in QueryInputs : Unimplemented("queryState", input)

\* -------------------------------------------------- FiscoBcosConnector body
\* init: `return Promise.resolve()`.
Fisco_init ==
    /\ CanCall
    /\ Resolve(cls, "init") = Fisco
    /\ calls' = Append(calls, Returned("init", Fisco, NoInput, JSUndefined))
    /\ UNCHANGED <<identity, context, nextObj, events, runs>>

\* installSmartContract up to its await: the install strategy is dispatched.
Fisco_installSmartContract ==
    /\ CanCall
    /\ Resolve(cls, "installSmartContract") = Fisco
    /\ Len(runs) < MaxRuns
    /\ runs' = Append(runs, Run(NewCall, "install", "", JSUndefined,
                                JSUndefined, FALSE, Len(events)))
    /\ calls' = Append(calls,
           Call("installSmartContract", Fisco, NoInput, "await",
                <<Len(runs) + 1>>, All("none", NoError), JSUndefined,
                NoError, <<>>))
    /\ UNCHANGED <<identity, context, nextObj, events>>

\* installSmartContract after its await, the catch block throwing an error
\* of its own instead of the one it caught.
Fisco_installSmartContract_resume_wrapped(c) ==
    /\ calls[c].op = "installSmartContract"
    /\ calls[c].pc = "await"
    /\ Settled(calls[c].promises[1])
    /\ LET r == calls[c].promises[1]
           wrapped == [name |-> "Error",
                       message |-> "failed to install smart contract",
                       run |-> 0]
       IN calls' = [calls EXCEPT ![c] =
              IF runs[r].state = "resolved"
              THEN [@ EXCEPT !.pc = "resolved"]
              ELSE [@ EXCEPT !.pc = "rejected", !.error = wrapped,
                             !.logged = <<RunError(r)>>]]
    /\ UNCHANGED <<identity, context, nextObj, events, runs>>

\* installSmartContract after its await: returns, or logs and rethrows.
Fisco_installSmartContract_resume(c) ==
    /\ calls[c].op = "installSmartContract"
    /\ calls[c].pc = "await"
    /\ Settled(calls[c].promises[1])
    /\ LET r == calls[c].promises[1] IN
       calls' = [calls EXCEPT ![c] =
           IF runs[r].state = "resolved"
           THEN [@ EXCEPT !.pc = "resolved"]
           ELSE [@ EXCEPT !.pc = "rejected", !.error = RunError(r),
                          !.logged = <<RunError(r)>>]]
    /\ UNCHANGED <<identity, context, nextObj, events, runs>>

\* getContext keeping a context it already holds:
\* `this.context = this.context || {}`.
Fisco_getContext_reuse ==
    /\ CanCall
    /\ Resolve(cls, "getContext") = Fisco
    /\ context' = IF context = JSUndefined THEN JSObject(nextObj) ELSE context
    /\ nextObj' = IF context = JSUndefined THEN nextObj + 1 ELSE nextObj
    /\ calls' = Append(calls, Returned("getContext", Fisco, NoInput, context'))
    /\ UNCHANGED <<identity, events, runs>>

\* getContext: `this.context = {}; return this.context;`.
Fisco_getContext ==
    /\ CanCall
    /\ Resolve(cls, "getContext") = Fisco
    /\ context' = JSObject(nextObj)
    /\ nextObj' = nextObj + 1
    /\ calls' = Append(calls,
           Returned("getContext", Fisco, NoInput, JSObject(nextObj)))
    /\ UNCHANGED <<identity, events, runs>>

\* releaseContext dereferencing the context it releases, which throws a
\* TypeError when there is none.
Fisco_releaseContext_strict ==
    /\ CanCall
    /\ Resolve(cls, "releaseContext") = Fisco
    /\ context' = JSUndefined
    /\ calls' = Append(calls,
           IF context = JSUndefined
           THEN Threw("releaseContext", Fisco, NoInput, TypeError)
           ELSE Returned("releaseContext", Fisco, NoInput, JSUndefined))
    /\ UNCHANGED <<identity, nextObj, events, runs>>

\* releaseContext dropping the settings together with the context.
Fisco_releaseContext_dropSettings ==
    /\ CanCall
    /\ Resolve(cls, "releaseContext") = Fisco
    /\ context' = JSUndefined
    /\ fiscoBcosSettings' = "undefined"
    /\ calls' = Append(calls,
           Returned("releaseContext", Fisco, NoInput, JSUndefined))
    /\ UNCHANGED <<cls, workerIndex, bcType, workspaceRoot, budget, nextObj,
                   events, runs>>

\* releaseContext: `this.context = undefined;`.
Fisco_releaseContext ==
    /\ CanCall
    /\ Resolve(cls, "releaseContext") = Fisco
    /\ context' = JSUndefined
    /\ calls' = Append(calls,
           Returned("releaseContext", Fisco, NoInput, JSUndefined))
    /\ UNCHANGED <<identity, nextObj, events, runs>>

\* `invocations` with an empty array wrapped like a single argument map:
\* [invokeData], one element without keys.
Invocations_wrapEmpty(input) ==
    IF ~input.isArray THEN <<input.items[1]>>
    ELSE IF input.items = <<>> THEN << <<>> >>
    ELSE input.items

\* `invocations`: invokeData itself if it is an array, else [invokeData].
Invocations(input) ==
    IF ~input.isArray THEN <<input.items[1]>> ELSE input.items

\* The forEach skipping an element that does not normalize and going on
\* with the next one.
RECURSIVE ForEachFrom_skipFailing(_, _, _, _, _, _)
ForEachFrom_skipFailing(invocations, i, c, evs, rs, promises) ==
    IF i > Len(invocations)
    THEN [threw |-> FALSE, events |-> evs, runs |-> rs, promises |-> promises]
    ELSE LET norm == Normalize(invocations[i]) IN
         IF norm.threw
         THEN ForEachFrom_skipFailing(invocations, i + 1, c, evs, rs,
                                      promises)
         ELSE LET announced == OnTxsSubmitted(evs, c, 1)
                  dispatched == Append(rs, Run(c, "invoke", ContractID,
                                               norm.fcn, JSArray(norm.fcArgs),
                                               FALSE, Len(announced)))
              IN ForEachFrom_skipFailing(invocations, i + 1, c, announced,
                     dispatched, Append(promises, Len(dispatched)))

\* The forEach dispatching each element's call before announcing it.
RECURSIVE ForEachFrom_dispatchFirst(_, _, _, _, _, _)
ForEachFrom_dispatchFirst(invocations, i, c, evs, rs, promises) ==
    IF i > Len(invocations)
    THEN [threw |-> FALSE, events |-> evs, runs |-> rs, promises |-> promises]
    ELSE LET norm == Normalize(invocations[i]) IN
         IF norm.threw
         THEN [threw |-> TRUE, events |-> evs, runs |-> rs,
               promises |-> promises]
         ELSE LET dispatched == Append(rs, Run(c, "invoke", ContractID,
                                               norm.fcn, JSArray(norm.fcArgs),
                                               FALSE, Len(evs)))
              IN ForEachFrom_dispatchFirst(invocations, i + 1, c,
                     OnTxsSubmitted(evs, c, 1), dispatched,
                     Append(promises, Len(dispatched)))

\* invocations.forEach(...) of call c from element i on, given the event
\* log, the runs and the promises array so far.  Per element: normalize,
\* announce Submitted(1), dispatch the invoke strategy and push its promise.
\* threw: the callback raised (toString of null), which ends the forEach.
RECURSIVE ForEachFrom(_, _, _, _, _, _)
ForEachFrom(invocations, i, c, evs, rs, promises) ==
    IF i > Len(invocations)
    THEN [threw |-> FALSE, events |-> evs, runs |-> rs, promises |-> promises]
    ELSE LET norm == Normalize(invocations[i]) IN
         IF norm.threw
         THEN [threw |-> TRUE, events |-> evs, runs |-> rs,
               promises |-> promises]
         ELSE LET announced == OnTxsSubmitted(evs, c, 1)
                  dispatched == Append(rs, Run(c, "invoke", ContractID,
                                               norm.fcn, JSArray(norm.fcArgs),
                                               FALSE, Len(announced)))
              IN ForEachFrom(invocations, i + 1, c, announced, dispatched,
                             Append(promises, Len(dispatched)))

\* invokeSmartContract up to `await Promise.all(promises)`; when the forEach
\* throws, through the catch block: log and rethrow.
Fisco_invokeSmartContract ==
    \E input \in InvokeInputs :
        /\ CanCall
        /\ Resolve(cls, "invokeSmartContract") = Fisco
        /\ Len(runs) + Len(input.items) <= MaxRuns
        /\ LET loop == ForEachFrom(Invocations(input), 1, NewCall, events,
                                   runs, <<>>)
           IN /\ events' = loop.events
              /\ runs' = loop.runs
              /\ calls' = Append(calls,
                     IF loop.threw
                     THEN Call("invokeSmartContract", Fisco, input,
                               "rejected", loop.promises,
                               All("none", NoError), JSUndefined, TypeError,
                               <<TypeError>>)
                     ELSE Call("invokeSmartContract", Fisco, input, "await",
                               loop.promises,
                               All(IF loop.promises = <<>> THEN "fulfilled"
                                   ELSE "pending", NoError),
                               JSUndefined, NoError, <<>>))
        /\ UNCHANGED <<identity, context, nextObj>>

\* The results of every run dispatched so far, as if the calls in flight
\* pushed to one promises array kept on the instance.
Results_shared(promises) ==
    JSArray([i \in 1..Len(runs) |-> TxResult(i)])

\* The results in the opposite of array order.
Results_reversed(promises) ==
    JSArray([i \in 1..Len(promises) |->
                 TxResult(promises[Len(promises) + 1 - i])])

\* The results Promise.all fulfils with: one per promise, in array order.
Results(promises) == JSArray([i \in 1..Len(promises) |-> TxResult(promises[i])])

\* invokeSmartContract after `await Promise.all(promises)`: announce
\* Finished(results) and return them, or log the rejection and rethrow it.
Fisco_invokeSmartContract_resume(c) ==
    /\ calls[c].op = "invokeSmartContract"
    /\ calls[c].pc = "await"
    /\ calls[c].all.state \in {"fulfilled", "rejected"}
    /\ IF calls[c].all.state = "fulfilled"
       THEN /\ events' = OnTxsFinished(events, c, Results(calls[c].promises))
            /\ calls' = [calls EXCEPT ![c].pc = "resolved",
                                      ![c].value = Results(calls[c].promises)]
       ELSE /\ events' = events
            /\ calls' = [calls EXCEPT ![c].pc = "rejected",
                                      ![c].error = calls[c].all.reason,
                                      ![c].logged = <<calls[c].all.reason>>]
    /\ UNCHANGED <<identity, context, nextObj, runs>>

\* queryState reading a property of the current context before anything
\* else, which throws a TypeError when no context is live.
Fisco_queryState_needsContext ==
    \E input \in QueryInputs :
        /\ CanCall
        /\ Resolve(cls, "queryState") = Fisco
        /\ Len(runs) < MaxRuns
        /\ IF context = JSUndefined
           THEN /\ calls' = Append(calls,
                       Threw("queryState", Fisco, input, TypeError))
                /\ UNCHANGED <<events, runs>>
           ELSE /\ events' = OnTxsSubmitted(events, NewCall, 1)
                /\ runs' = Append(runs, Run(NewCall, "invoke", ContractID,
                                            input.fcn, input.key, TRUE,
                                            Len(events')))
                /\ calls' = Append(calls,
                       Call("queryState", Fisco, input, "await",
                            <<Len(runs) + 1>>, All("none", NoError),
                            JSUndefined, NoError, <<>>))
        /\ UNCHANGED <<identity, context, nextObj>>

\* queryState without its `this._onTxsSubmitted(1)`.
Fisco_queryState_unannounced ==
    \E input \in QueryInputs :
        /\ CanCall
        /\ Resolve(cls, "queryState") = Fisco
        /\ Len(runs) < MaxRuns
        /\ runs' = Append(runs, Run(NewCall, "invoke", ContractID, input.fcn,
                                    input.key, TRUE, Len(events)))
        /\ calls' = Append(calls,
               Call("queryState", Fisco, input, "await", <<Len(runs) + 1>>,
                    All("none", NoError), JSUndefined, NoError, <<>>))
        /\ UNCHANGED <<identity, context, nextObj, events>>

\* queryState up to its await: announce Submitted(1), dispatch the invoke
\* strategy with fcn and key as given and readOnly = true.
Fisco_queryState ==
    \E input \in QueryInputs :
        /\ CanCall
        /\ Resolve(cls, "queryState") = Fisco
        /\ Len(runs) < MaxRuns
        /\ events' = OnTxsSubmitted(events, NewCall, 1)
        /\ runs' = Append(runs, Run(NewCall, "invoke", ContractID, input.fcn,
                                    input.key, TRUE, Len(events')))
        /\ calls' = Append(calls,
               Call("queryState", Fisco, input, "await", <<Len(runs) + 1>>,
                    All("none", NoError), JSUndefined, NoError, <<>>))
        /\ UNCHANGED <<identity, context, nextObj>>

\* queryState after its await: announce Finished(result) and return it, or
\* log the rejection and rethrow it.
Fisco_queryState_resume(c) ==
    /\ calls[c].op = "queryState"
    /\ calls[c].pc = "await"
    /\ Settled(calls[c].promises[1])
    /\ LET r == calls[c].promises[1] IN
       IF runs[r].state = "resolved"
       THEN /\ events' = OnTxsFinished(events, c, TxResult(r))
            /\ calls' = [calls EXCEPT ![c].pc = "resolved",
                                      ![c].value = TxResult(r)]
       ELSE /\ events' = events
            /\ calls' = [calls EXCEPT ![c].pc = "rejected",
                                      ![c].error = RunError(r),
                                      ![c].logged = <<RunError(r)>>]
    /\ UNCHANGED <<identity, context, nextObj, runs>>

\* generateRawTransaction up to its await: announce Submitted(1), dispatch
\* the generate-raw strategy with the argument map and the file as given.
Fisco_generateRawTransaction ==
    \E input \in GenerateInputs :
        /\ CanCall
        /\ cls = Fisco
        /\ Len(runs) < MaxRuns
        /\ events' = OnTxsSubmitted(events, NewCall, 1)
        /\ runs' = Append(runs, Run(NewCall, "generateRaw", ContractID,
                                    JSUndefined, input.key, FALSE,
                                    Len(events')))
        /\ calls' = Append(calls,
               Call("generateRawTransaction", Fisco, input, "await",
                    <<Len(runs) + 1>>, All("none", NoError), JSUndefined,
                    NoError, <<>>))
        /\ UNCHANGED <<identity, context, nextObj>>

\* generateRawTransaction after its await: announce Finished(result) and
\* return it; there is no try/catch, so a rejection of the strategy leaves
\* the method at the await: nothing announced, nothing logged.
Fisco_generateRawTransaction_resume(c) ==
    /\ calls[c].op = "generateRawTransaction"
    /\ calls[c].pc = "await"
    /\ Settled(calls[c].promises[1])
    /\ LET r == calls[c].promises[1] IN
       IF runs[r].state = "resolved"
       THEN /\ events' = OnTxsFinished(events, c, TxResult(r))
            /\ calls' = [calls EXCEPT ![c].pc = "resolved",
                                      ![c].value = TxResult(r)]
       ELSE /\ events' = events
            /\ calls' = [calls EXCEPT ![c].pc = "rejected",
                                      ![c].error = RunError(r)]
    /\ UNCHANGED <<identity, context, nextObj, runs>>

\* sendRawTransaction: dispatch the send-raw strategy with the transactions
\* and the two notifiers, handed over as the bare function references
\* `this._onTxsSubmitted` and `this._onTxsFinished`, and return its promise.
Fisco_sendRawTransaction ==
    \E input \in SendInputs :
        /\ CanCall
        /\ cls = Fisco
        /\ Len(runs) < MaxRuns
        /\ runs' = Append(runs, Run(NewCall, "sendRaw", "", JSUndefined,
                                    input.key, FALSE, Len(events)))
        /\ calls' = Append(calls,
               Call("sendRawTransaction", Fisco, input, "await",
                    <<Len(runs) + 1>>, All("none", NoError), JSUndefined,
                    NoError, <<>>))
        /\ UNCHANGED <<identity, context, nextObj, events>>

\* The promise sendRawTransaction returned follows the strategy's promise.
Fisco_sendRawTransaction_resume(c) ==
    /\ calls[c].op = "sendRawTransaction"
    /\ calls[c].pc = "await"
    /\ Settled(calls[c].promises[1])
    /\ LET r == calls[c].promises[1] IN
       calls' = [calls EXCEPT ![c] =
           IF runs[r].state = "resolved"
           THEN [@ EXCEPT !.pc = "resolved", !.value = TxResult(r)]
           ELSE [@ EXCEPT !.pc = "rejected", !.error = RunError(r)]]
    /\ UNCHANGED <<identity, context, nextObj, events, runs>>

\* ------------------------------------------------------------- environment
\* A notifier called through a bare reference, `onSubmitted(count)`: the
\* file is strict, so `this` is undefined inside it, `this.emit` throws a
\* TypeError into the caller and nothing is emitted.
Detached(evs, name, arg) ==
    [notifier |-> name, arg |-> arg, threw |-> TRUE, error |-> EmitTypeError,
     events |-> evs]

\* The send-raw strategy r calls the notifiers it was handed: first the one
\* for Submitted with the number of transactions, then the one for Finished
\* with its results.
RunNotify ==
    \E r \in 1..Len(runs) :
        /\ runs[r].impl = "sendRaw"
        /\ runs[r].state = "pending"
        /\ Len(runs[r].notified) < 2
        /\ LET out == IF runs[r].notified = <<>>
                      THEN Detached(events, "_onTxsSubmitted",
                                    JSNumber(Len(runs[r].args.a)))
                      ELSE Detached(events, "_onTxsFinished",
                                    JSArray(<<TxResult(r)>>))
           IN /\ events' = out.events
              /\ runs' = [runs EXCEPT ![r].notified =
                              Append(@, [notifier |-> out.notifier,
                                         arg |-> out.arg,
                                         threw |-> out.threw,
                                         raised |-> SubSeq(events',
                                                        Len(events) + 1,
                                                        Len(events'))])]
        /\ UNCHANGED <<identity, context, nextObj, calls>>

\* How Promise.all(promises) reacts when run r settles, rs being the runs
\* after it did: it rejects with the reason of the first rejection, and
\* fulfils once every promise is fulfilled.
PromiseAll(all, promises, rs, r) ==
    IF all.state # "pending" THEN all
    ELSE IF rs[r].state = "rejected" THEN All("rejected", RunError(r))
    ELSE IF \A i \in 1..Len(promises) : rs[promises[i]].state = "resolved"
    THEN All("fulfilled", NoError)
    ELSE all

\* Whether run r, settling now, overtakes a promise before it in the array.
Overtakes(promises, rs, r) ==
    \E i, k \in 1..Len(promises) :
        i < k /\ promises[k] = r /\ rs[promises[i]].state = "pending"

\* Strategy run r settles with outcome ("resolved" or "rejected").
Settle(r, outcome) ==
    /\ runs[r].state = "pending"
    /\ runs' = [runs EXCEPT ![r].state = outcome]
    /\ calls' = [calls EXCEPT ![runs[r].by].all =
                    LET promises == calls[runs[r].by].promises
                        all == PromiseAll(@, promises, runs', r)
                    IN IF all.state \in {"pending", "fulfilled"}
                       THEN [all EXCEPT !.overtaken =
                                \/ calls[runs[r].by].all.overtaken
                                \/ Overtakes(promises, runs', r)]
                       ELSE all]
    /\ UNCHANGED <<identity, context, nextObj, events>>

RunResolve == \E r \in 1..Len(runs) : Settle(r, "resolved")

RunReject == \E r \in 1..Len(runs) : Settle(r, "rejected")

\* -------------------------------------------------------------------- Next
Next ==
    \/ Base_init
    \/ Base_installSmartContract
    \/ Base_prepareWorkerArguments
    \/ Base_getContext
    \/ Base_releaseContext
    \/ Base_invokeSmartContract
    \/ Base_querySmartContract
    \/ Base_queryState
    \/ Fisco_init
    \/ Fisco_installSmartContract
    \/ \E c \in 1..Len(calls) : Fisco_installSmartContract_resume(c)
    \/ Fisco_getContext
    \/ Fisco_releaseContext
    \/ Fisco_invokeSmartContract
    \/ \E c \in 1..Len(calls) : Fisco_invokeSmartContract_resume(c)
    \/ Fisco_queryState
    \/ \E c \in 1..Len(calls) : Fisco_queryState_resume(c)
    \/ Fisco_generateRawTransaction
    \/ \E c \in 1..Len(calls) : Fisco_generateRawTransaction_resume(c)
    \/ Fisco_sendRawTransaction
    \/ \E c \in 1..Len(calls) : Fisco_sendRawTransaction_resume(c)
    \/ RunResolve
    \/ RunReject
    \/ RunNotify

Spec == Init /\ [][Next]_vars

\* The methods that run no strategy: the defaults of BlockchainConnector and
\* the context lifecycle of FiscoBcosConnector.
NextAdmin ==
    \/ Base_init
    \/ Base_installSmartContract
    \/ Base_prepareWorkerArguments
    \/ Base_getContext
    \/ Base_releaseContext
    \/ Base_invokeSmartContract
    \/ Base_querySmartContract
    \/ Base_queryState
    \/ Fisco_init
    \/ Fisco_getContext
    \/ Fisco_releaseContext

SpecAdmin == InitAdmin /\ [][NextAdmin]_vars

\* ===================================================================== claims
\* ------------------------------------------------------------------ history
Done(c) == calls[c].pc \in {"resolved", "rejected"}

\* Call c ran FiscoBcosConnector.invokeSmartContract.
IsInvoke(c) == calls[c].op = "invokeSmartContract" /\ calls[c].class = Fisco

\* Call c ran FiscoBcosConnector.queryState.
IsQueryState(c) == calls[c].op = "queryState" /\ calls[c].class = Fisco

\* The batch size of invoke call c.
BatchSize(c) == Len(Invocations(calls[c].input))

\* The forEach of invoke call c dispatched every element of its batch.
AllDispatched(c) == Len(calls[c].promises) = BatchSize(c)

\* The positions in the event log of the events `name` raised by call c.
EventsOf(c, name) ==
    {j \in 1..Len(events) : events[j].by = c /\ events[j].name = name}

RECURSIVE SumCounts(_)
SumCounts(js) ==
    IF js = {} THEN 0
    ELSE LET j == CHOOSE x \in js : TRUE
         IN events[j].arg.n + SumCounts(js \ {j})

\* The sum of the counts call c announced as submitted.
SubmittedSum(c) == SumCounts(EventsOf(c, TxsSubmitted))

\* C1: for every invokeSmartContract call on the concrete connector whose
\* elements were all dispatched, once the call is complete it has raised
\* exactly one Finished event, and the sum of its Submitted counts equals the
\* number of results that event carries - also when underlying calls failed.
C1_SubmittedMatchedByFinished ==
    \A c \in 1..Len(calls) :
        (IsInvoke(c) /\ AllDispatched(c) /\ Done(c)) =>
            /\ Cardinality(EventsOf(c, TxsFinished)) = 1
            /\ \A j \in EventsOf(c, TxsFinished) :
                   SubmittedSum(c) = Len(events[j].arg.a)

\* C2: when an invokeSmartContract batch of two or more elements has
\* rejected, every underlying call of the batch has settled (join, not race)
\* and one Finished event was raised carrying one entry per batch element.
C2_FailTogether ==
    \A c \in 1..Len(calls) :
        (IsInvoke(c) /\ AllDispatched(c) /\ BatchSize(c) >= 2
             /\ calls[c].pc = "rejected") =>
            /\ \A i \in 1..Len(calls[c].promises) :
                   Settled(calls[c].promises[i])
            /\ Cardinality(EventsOf(c, TxsFinished)) = 1
            /\ \A j \in EventsOf(c, TxsFinished) :
                   Len(events[j].arg.a) = BatchSize(c)

\* C3: whenever a Finished event of an invokeSmartContract call of batch size
\* n (one argument map: n = 1) is in the event log, it is the call's only
\* Finished event, exactly n Submitted events of the call, each of count 1,
\* precede it and none follows it, and it carries an array of n results.
C3_SubmittedBeforeFinished ==
    \A c \in 1..Len(calls) : IsInvoke(c) =>
        \A j \in EventsOf(c, TxsFinished) :
            /\ EventsOf(c, TxsFinished) = {j}
            /\ Cardinality(EventsOf(c, TxsSubmitted)) = BatchSize(c)
            /\ \A i \in EventsOf(c, TxsSubmitted) :
                   i < j /\ events[i].arg = JSNumber(1)
            /\ events[j].arg.t = "array"
            /\ Len(events[j].arg.a) = BatchSize(c)

\* A batch of two or more elements and a single argument map, both finished.
C3_Witness ==
    /\ \E c \in 1..Len(calls) :
           /\ IsInvoke(c) /\ calls[c].input.isArray /\ BatchSize(c) >= 2
           /\ EventsOf(c, TxsFinished) # {}
    /\ \E c \in 1..Len(calls) :
           /\ IsInvoke(c) /\ ~calls[c].input.isArray
           /\ EventsOf(c, TxsFinished) # {}

\* The last getContext or releaseContext call of the concrete connector
\* among calls 1..c; 0 if there is none.
RECURSIVE LastLifecycle(_)
LastLifecycle(c) ==
    IF c = 0 THEN 0
    ELSE IF calls[c].class = Fisco
            /\ calls[c].op \in {"getContext", "releaseContext"}
    THEN c
    ELSE LastLifecycle(c - 1)

\* The getContext calls made since the last releaseContext (or since
\* construction): the calls whose contexts have been handed out and not
\* released.
LiveCalls ==
    {c \in 1..Len(calls) :
        /\ calls[c].class = Fisco /\ calls[c].op = "getContext"
        /\ calls[c].pc = "resolved"
        /\ \A d \in c..Len(calls) :
               ~(calls[d].class = Fisco /\ calls[d].op = "releaseContext")}

LiveContexts == {calls[c].value : c \in LiveCalls}

NotImplementedMessage(op) ==
    op \o " is not implemented for this blockchain connector"

\* The default operations that only throw.
ThrowingDefaults ==
    {"init", "installSmartContract", "getContext", "releaseContext",
     "invokeSmartContract", "querySmartContract", "queryState"}

\* C4 as stated: on a connector that overrides nothing every call of a
\* default operation of the interface fails with the error naming the
\* operation called, and no event is raised.
C4_EveryDefaultFails ==
    cls = Base =>
        /\ events = <<>>
        /\ \A c \in 1..Len(calls) :
               /\ calls[c].pc = "rejected"
               /\ calls[c].error.message = NotImplementedMessage(calls[c].op)

\* C4 amended: on a connector that overrides nothing, a call of one of the
\* seven throwing defaults (init, installSmartContract, getContext,
\* releaseContext, invokeSmartContract, querySmartContract, queryState) is
\* rejected with an Error whose message names exactly the operation called;
\* the eighth default, prepareWorkerArguments, resolves; no call raises an
\* event or dispatches a strategy run.
C4_ThrowingDefaultsFail ==
    cls = Base =>
        /\ events = <<>>
        /\ runs = <<>>
        /\ Cardinality(ThrowingDefaults) = 7
        /\ \A c \in 1..Len(calls) :
               /\ calls[c].op \in ThrowingDefaults \cup {"prepareWorkerArguments"}
               /\ calls[c].op \in ThrowingDefaults =>
                      /\ calls[c].pc = "rejected"
                      /\ calls[c].error.name = "Error"
                      /\ calls[c].error.message =
                             NotImplementedMessage(calls[c].op)
               /\ calls[c].op = "prepareWorkerArguments" =>
                      calls[c].pc = "resolved"

\* queryState and querySmartContract were both called on the base connector.
C4_Witness ==
    /\ cls = Base
    /\ \E c \in 1..Len(calls) : calls[c].op = "queryState"
    /\ \E c \in 1..Len(calls) : calls[c].op = "querySmartContract"

IsPrepare(c) == calls[c].op = "prepareWorkerArguments"

\* The step appends a call of prepareWorkerArguments.
PrepareStep ==
    /\ Len(calls') = Len(calls) + 1
    /\ calls'[Len(calls')].op = "prepareWorkerArguments"

\* C5: every call of the default prepareWorkerArguments(workerCount)
\* resolves to an array of exactly workerCount entries, each an object
\* without properties; the call raises no event, and the step that makes it
\* changes nothing of the connector but the record of the call.
C5_PrepareWorkerArguments ==
    /\ [](\A c \in 1..Len(calls) : IsPrepare(c) =>
            /\ calls[c].pc = "resolved"
            /\ calls[c].value.t = "array"
            /\ Len(calls[c].value.a) = calls[c].input.number
            /\ \A i \in 1..Len(calls[c].value.a) :
                   /\ calls[c].value.a[i].t = "object"
                   /\ calls[c].value.a[i].a = <<>>
            /\ EventsOf(c, TxsSubmitted) \cup EventsOf(c, TxsFinished) = {})
    /\ [][PrepareStep =>
            /\ UNCHANGED <<identity, context, nextObj, events, runs>>
            /\ SubSeq(calls', 1, Len(calls)) = calls]_vars

\* prepareWorkerArguments(0) and prepareWorkerArguments(n), n >= 2, on the
\* concrete connector.
C5_Witness ==
    /\ cls = Fisco
    /\ \E c \in 1..Len(calls) : IsPrepare(c) /\ calls[c].input.number = 0
    /\ \E c \in 1..Len(calls) : IsPrepare(c) /\ calls[c].input.number >= 2

IsGetContext(c) == calls[c].op = "getContext" /\ calls[c].class = Fisco

IsReleaseContext(c) ==
    calls[c].op = "releaseContext" /\ calls[c].class = Fisco

\* C6: on the concrete connector every releaseContext call resolves (also
\* right after construction and twice in a row) and leaves no context; every
\* getContext call, whatever getContext and releaseContext calls came before
\* it, resolves to a context object; and as long as the harness has a call
\* left, getContext can be called.
C6_ReleaseThenGet ==
    /\ \A c \in 1..Len(calls) :
           /\ IsReleaseContext(c) =>
                  calls[c].pc = "resolved" /\ calls[c].error = NoError
           /\ IsGetContext(c) =>
                  calls[c].pc = "resolved" /\ calls[c].value.t = "object"
    /\ (calls # <<>> /\ IsReleaseContext(Len(calls))) => context = JSUndefined
    /\ (cls = Fisco /\ CanCall) => ENABLED Fisco_getContext

\* releaseContext right after construction, then getContext, releaseContext
\* and a new getContext, all resolved.
C6_Witness ==
    /\ Len(calls) >= 4
    /\ IsReleaseContext(1) /\ IsGetContext(2)
    /\ IsReleaseContext(3) /\ IsGetContext(4)
    /\ \A c \in 1..4 : calls[c].pc = "resolved"

\* C7 as stated: at most one context is live at a time, a context being live
\* from the getContext that hands it out to the next releaseContext; so a
\* getContext in the Acquired state hands out no further context.
C7_AtMostOneLiveContext == Cardinality(LiveContexts) <= 1

\* C7 amended: the connector holds at most one current context: its context
\* field is undefined after construction and after releaseContext, and else
\* the object the latest getContext returned.  getContext in the Acquired
\* state is not refused: every getContext resolves to a fresh object,
\* different from every context handed out before, which replaces the
\* current one.
C7_OneCurrentContext ==
    cls = Fisco =>
        /\ LET last == LastLifecycle(Len(calls)) IN
           context = IF last = 0 \/ IsReleaseContext(last) THEN JSUndefined
                     ELSE calls[last].value
        /\ \A d \in 1..Len(calls) : IsGetContext(d) =>
               /\ calls[d].pc = "resolved"
               /\ calls[d].value.t = "object"
               /\ \A c \in 1..(d - 1) : IsGetContext(c) =>
                      calls[c].value # calls[d].value

\* Two getContext calls with no releaseContext after the first: two
\* contexts handed out, the connector holding the second.
C7_Witness ==
    /\ Cardinality(LiveContexts) >= 2
    /\ \E c \in LiveCalls :
           /\ context = calls[c].value
           /\ \A d \in LiveCalls : d <= c

\* The entries of an argument map that are not the function name.
Positional(arg) == SelectSeq(arg, LAMBDA e : e.key # TransactionType)

EventSeq(c) == SelectSeq(events, LAMBDA e : e.by = c)

\* How many transactions an event speaks of: the count of a Submitted
\* event, the number of results a Finished event carries.
Carried(e) ==
    IF e.arg.t = "number" THEN e.arg.n
    ELSE IF e.arg.t = "array" THEN Len(e.arg.a)
    ELSE 1

EventNames(c) == [i \in 1..Len(EventSeq(c)) |-> EventSeq(c)[i].name]

EventCounts(c) == [i \in 1..Len(EventSeq(c)) |-> Carried(EventSeq(c)[i])]

\* The type of the argument of each event.
EventShapes(c) == [i \in 1..Len(EventSeq(c)) |-> EventSeq(c)[i].arg.t]

\* Call v is the single-element invokeSmartContract equivalent to the
\* queryState call q: its argument map has transaction_type = fcn and the
\* key as its only other entry.
Equivalent(q, v) ==
    /\ IsQueryState(q) /\ IsInvoke(v)
    /\ BatchSize(v) = 1
    /\ LET arg == Invocations(calls[v].input)[1] IN
       /\ Len(arg) = 2
       /\ \E i \in 1..2 : arg[i] = Entry(TransactionType, calls[q].input.fcn)
       /\ \E i \in 1..2 : arg[i].key # TransactionType
                          /\ arg[i].value = calls[q].input.key

\* C9 as stated: a completed queryState call and a completed equivalent
\* invokeSmartContract call with the same outcome have raised the same
\* events: same names in the same order, same counts, same payload shape.
C9_SameEventPair ==
    \A q, v \in 1..Len(calls) :
        (Equivalent(q, v) /\ Done(q) /\ Done(v) /\ calls[q].pc = calls[v].pc) =>
            /\ EventNames(q) = EventNames(v)
            /\ EventCounts(q) = EventCounts(v)
            /\ EventShapes(q) = EventShapes(v)

\* C9 amended: a completed queryState call and a completed equivalent
\* invokeSmartContract call with the same outcome have raised events of the
\* same names in the same order with the same counts: Submitted(1) followed
\* by one Finished event of one result when the underlying call succeeded,
\* Submitted(1) alone when it failed.  The Finished payloads differ in shape:
\* queryState's is the bare result, invokeSmartContract's a one-element
\* array holding the result.
C9_SameEventNamesAndCounts ==
    \A q, v \in 1..Len(calls) :
        (Equivalent(q, v) /\ Done(q) /\ Done(v) /\ calls[q].pc = calls[v].pc) =>
            /\ EventNames(q) = EventNames(v)
            /\ EventCounts(q) = EventCounts(v)
            /\ EventNames(q) = IF calls[q].pc = "resolved"
                               THEN <<TxsSubmitted, TxsFinished>>
                               ELSE <<TxsSubmitted>>
            /\ \A i \in 1..Len(EventSeq(q)) : EventCounts(q)[i] = 1
            /\ calls[q].pc = "resolved" =>
                   /\ EventSeq(q)[2].arg.t = "TxResult"
                   /\ EventSeq(v)[2].arg.t = "array"
                   /\ EventSeq(v)[2].arg.a[1].t = "TxResult"

\* A queryState call and its equivalent invokeSmartContract call, both
\* resolved.
C9_Witness ==
    \E q, v \in 1..Len(calls) :
        Equivalent(q, v) /\ calls[q].pc = "resolved" /\ calls[v].pc = "resolved"

IsQuerySmartContract(c) == calls[c].op = "querySmartContract"

\* C10 as stated: a completed querySmartContract call on the concrete
\* connector has raised Submitted events for its args followed by exactly
\* one Finished event, and has returned the result list.
C10_QueryLikeInvoke ==
    cls = Fisco =>
        \A c \in 1..Len(calls) : (IsQuerySmartContract(c) /\ Done(c)) =>
            /\ SubmittedSum(c) = BatchSize(c)
            /\ Cardinality(EventsOf(c, TxsFinished)) = 1
            /\ calls[c].pc = "resolved"
            /\ calls[c].value.t = "array"

\* C10 amended: the concrete connector does not override
\* querySmartContract: for any args the call runs the default of
\* BlockchainConnector, which rejects with the Error 'querySmartContract is
\* not implemented for this blockchain connector', raises no Submitted or
\* Finished event, normalizes nothing and dispatches no underlying call.
C10_QueryNotImplemented ==
    cls = Fisco =>
        \A c \in 1..Len(calls) : IsQuerySmartContract(c) =>
            /\ calls[c].class = Base
            /\ calls[c].pc = "rejected"
            /\ calls[c].error.name = "Error"
            /\ calls[c].error.message =
                   "querySmartContract is not implemented for this blockchain connector"
            /\ EventSeq(c) = <<>>
            /\ calls[c].promises = <<>>
            /\ \A r \in 1..Len(runs) : runs[r].by # c

\* querySmartContract called on the concrete connector, with one argument
\* map and with an array.
C10_Witness ==
    /\ cls = Fisco
    /\ \E c \in 1..Len(calls) :
           IsQuerySmartContract(c) /\ calls[c].input.isArray
    /\ \E c \in 1..Len(calls) :
           IsQuerySmartContract(c) /\ ~calls[c].input.isArray

\* Call c ran FiscoBcosConnector.generateRawTransaction.
IsGenerateRaw(c) ==
    calls[c].op = "generateRawTransaction" /\ calls[c].class = Fisco

\* The notifier calls the send-raw strategies made, as <<run, position>>.
NotifierCalls ==
    {rc \in (1..Len(runs)) \X (1..2) : rc[2] <= Len(runs[rc[1]].notified)}

\* C11: every generateRawTransaction call raises exactly one Submitted event,
\* of count 1, before its strategy is dispatched; raises Finished only after
\* the strategy settled; and once complete has raised exactly one Finished
\* event, whether the strategy succeeded or failed.  Every notification a
\* send-raw strategy triggers through the notifiers sendRawTransaction
\* handed it raises one event on the connector and does not throw.
C11_RawHelpersEventContract ==
    /\ \A c \in 1..Len(calls) : IsGenerateRaw(c) =>
           /\ Cardinality(EventsOf(c, TxsSubmitted)) = 1
           /\ \A j \in EventsOf(c, TxsSubmitted) :
                  /\ events[j].arg = JSNumber(1)
                  /\ j <= runs[calls[c].promises[1]].seen
           /\ EventsOf(c, TxsFinished) # {} => Settled(calls[c].promises[1])
           /\ Done(c) => Cardinality(EventsOf(c, TxsFinished)) = 1
    /\ \A rc \in NotifierCalls :
           /\ ~runs[rc[1]].notified[rc[2]].threw
           /\ Len(runs[rc[1]].notified[rc[2]].raised) = 1

\* Call c ran FiscoBcosConnector.installSmartContract.
IsInstall(c) ==
    calls[c].op = "installSmartContract" /\ calls[c].class = Fisco

\* The runs among `promises` that have rejected.
RejectedOf(promises) ==
    {promises[k] : k \in {i \in 1..Len(promises) :
                              runs[promises[i]].state = "rejected"}}

\* C12: an installSmartContract call is resolved only if its install run
\* resolved and rejected only if it rejected, and then with that run's
\* reason, which is also what it logged; and an invokeSmartContract call
\* that rejected after dispatching its whole batch, or a queryState call
\* that rejected, carries as its error the unchanged rejection reason of one
\* of the runs that call itself dispatched.
C12_OutcomesSurfacedUnmodified ==
    \A c \in 1..Len(calls) :
        /\ IsInstall(c) =>
               LET r == calls[c].promises[1] IN
               /\ runs[r].by = c /\ runs[r].impl = "install"
               /\ calls[c].pc = "resolved" =>
                      runs[r].state = "resolved" /\ calls[c].error = NoError
               /\ calls[c].pc = "rejected" =>
                      /\ runs[r].state = "rejected"
                      /\ calls[c].error = RunError(r)
                      /\ calls[c].logged = <<RunError(r)>>
        /\ (calls[c].pc = "rejected"
              /\ \/ IsQueryState(c)
                 \/ IsInvoke(c) /\ AllDispatched(c)) =>
               \E r \in RejectedOf(calls[c].promises) :
                   /\ runs[r].by = c
                   /\ calls[c].error = RunError(r)

\* An installSmartContract call rejected by its strategy, and a batch of two
\* or more rejected by one of its underlying calls.
C12_Witness ==
    /\ \E c \in 1..Len(calls) : IsInstall(c) /\ calls[c].pc = "rejected"
    /\ \E c \in 1..Len(calls) :
           /\ IsInvoke(c) /\ AllDispatched(c) /\ BatchSize(c) >= 2
           /\ calls[c].pc = "rejected"

\* Invoke call d was made while invoke call c was in flight: d's first
\* Submitted event precedes c's Finished event.
Overlapping(c, d) ==
    /\ IsInvoke(c) /\ IsInvoke(d) /\ c < d
    /\ \E j \in EventsOf(c, TxsFinished) :
           \E i \in EventsOf(d, TxsSubmitted) : i < j

\* C13: whatever calls have been made and whatever is in flight, getType()
\* and getWorkerIndex() return the values the constructor was given (here
\* 'fisco-bcos' and 0), and the settings and the workspace root are the ones
\* the constructor resolved; no step of the connector changes any of them.
C13_IdentityFixed ==
    /\ [](/\ getType = JSString("fisco-bcos")
          /\ getWorkerIndex = JSNumber(0)
          /\ cls = Fisco =>
                 /\ fiscoBcosSettings = "networkConfig['fisco-bcos']"
                 /\ workspaceRoot = "/workspace")
    /\ [][/\ getType' = getType
          /\ getWorkerIndex' = getWorkerIndex
          /\ fiscoBcosSettings' = fiscoBcosSettings
          /\ workspaceRoot' = workspaceRoot]_vars

\* Two overlapping batches, both complete, with the accessors still
\* returning the constructor's values.
C13_Witness ==
    /\ getType = JSString("fisco-bcos") /\ getWorkerIndex = JSNumber(0)
    /\ fiscoBcosSettings = "networkConfig['fisco-bcos']"
    /\ \E c, d \in 1..Len(calls) : Overlapping(c, d) /\ Done(d)

\* The position in the event log of the k-th Submitted event of call c.
SubmittedAt(c, k) ==
    CHOOSE j \in EventsOf(c, TxsSubmitted) :
        Cardinality({i \in EventsOf(c, TxsSubmitted) : i < j}) = k - 1

\* In invoke call c the k-th Submitted(1) is raised before the k-th
\* underlying call is dispatched, and that call before the (k+1)-th
\* Submitted; every run the call dispatched is in its promises array.
InInputOrder(c) ==
    LET promises == calls[c].promises IN
    /\ Cardinality(EventsOf(c, TxsSubmitted)) >= Len(promises)
    /\ \A k \in 1..Len(promises) :
           /\ runs[promises[k]].by = c
           /\ events[SubmittedAt(c, k)].arg = JSNumber(1)
           /\ SubmittedAt(c, k) <= runs[promises[k]].seen
           /\ k < Len(promises) =>
                  /\ runs[promises[k]].seen < SubmittedAt(c, k + 1)
                  /\ promises[k] < promises[k + 1]
    /\ \A r \in 1..Len(runs) : runs[r].by = c =>
           \E k \in 1..Len(promises) : promises[k] = r

DispatchedFor(r, c, k) ==
    LET norm == Normalize(Invocations(calls[c].input)[k]) IN
    /\ runs[r].by = c
    /\ runs[r].fcn = norm.fcn
    /\ runs[r].args = JSArray(norm.fcArgs)

\* C15: whenever an invokeSmartContract call has raised its Finished event,
\* the event carries one entry per input element, entry i is the result of
\* the underlying call that was dispatched for element i, and that list is
\* also what the call returns - in whatever order the underlying calls
\* completed.
C15_ResultsIndexAligned ==
    \A c \in 1..Len(calls) : IsInvoke(c) =>
        /\ calls[c].pc = "resolved" => EventsOf(c, TxsFinished) # {}
        /\ \A j \in EventsOf(c, TxsFinished) :
               /\ events[j].arg.t = "array"
               /\ Len(events[j].arg.a) = BatchSize(c)
               /\ \A i \in 1..BatchSize(c) :
                      \E r \in 1..Len(runs) :
                          /\ DispatchedFor(r, c, i)
                          /\ calls[c].promises[i] = r
                          /\ runs[r].state = "resolved"
                          /\ events[j].arg.a[i] = TxResult(r)
               /\ calls[c].pc = "resolved"
               /\ calls[c].value = events[j].arg

\* A batch of two or more distinct elements has raised Finished after an
\* underlying call completed before the call of an earlier element.
C15_Witness ==
    \E c \in 1..Len(calls) :
        /\ IsInvoke(c) /\ BatchSize(c) >= 2
        /\ calls[c].all.overtaken
        /\ EventsOf(c, TxsFinished) # {}

\* The event a notifier raises.
EventOf(notifier) ==
    IF notifier = "_onTxsSubmitted" THEN TxsSubmitted ELSE TxsFinished

\* C16: every call of a notifier - by a method of the connector or by a
\* strategy through the function it was handed - has raised exactly one
\* event, TxsSubmitted for onTxsSubmitted and TxsFinished for onTxsFinished,
\* carrying the argument of the call unchanged, and has not thrown; the
\* event log holds nothing but these events.
C16_NotifiersRaiseOneEvent ==
    /\ \A j \in 1..Len(events) :
           /\ events[j].name \in {TxsSubmitted, TxsFinished}
           /\ events[j].name = TxsSubmitted => events[j].arg.t = "number"
    /\ \A rc \in NotifierCalls :
           LET call == runs[rc[1]].notified[rc[2]] IN
           /\ ~call.threw
           /\ Len(call.raised) = 1
           /\ call.raised[1].name = EventOf(call.notifier)
           /\ call.raised[1].arg = call.arg

\* Call c is invokeSmartContract called with an empty array.
IsEmptyBatch(c) ==
    IsInvoke(c) /\ calls[c].input.isArray /\ calls[c].input.items = <<>>

\* C17: an invokeSmartContract call with an empty array raises no Submitted
\* event and dispatches no underlying call; it is never rejected; its
\* Promise.all is fulfilled at once, and once the call has resumed it has
\* raised exactly one Finished event, carrying the empty list, and has
\* resolved to the empty list.
C17_EmptyBatch ==
    \A c \in 1..Len(calls) : IsEmptyBatch(c) =>
        /\ EventsOf(c, TxsSubmitted) = {}
        /\ calls[c].promises = <<>>
        /\ \A r \in 1..Len(runs) : runs[r].by # c
        /\ calls[c].pc \in {"await", "resolved"}
        /\ calls[c].all.state = "fulfilled"
        /\ calls[c].pc = "await" => EventsOf(c, TxsFinished) = {}
        /\ calls[c].pc = "resolved" =>
               /\ Cardinality(EventsOf(c, TxsFinished)) = 1
               /\ \A j \in EventsOf(c, TxsFinished) :
                      events[j].arg = JSArray(<<>>)
               /\ calls[c].value = JSArray(<<>>)

\* An empty batch has resolved, its Finished event being the first event
\* the connector ever raised: a Finished with no Submitted before it.
C17_Witness ==
    \E c \in 1..Len(calls) :
        /\ IsEmptyBatch(c) /\ calls[c].pc = "resolved"
        /\ events # <<>>
        /\ events[1] = Event(TxsFinished, JSArray(<<>>), c)

\* The results of the runs call c dispatched.
OwnResults(c) == {TxResult(r) : r \in {x \in 1..Len(runs) : runs[x].by = c}}

\* The results a JS value carries: the entries of an array, or the value.
Entries(v) == IF v.t = "array" THEN {v.a[i] : i \in 1..Len(v.a)} ELSE {v}

\* C18: whatever invokeSmartContract calls overlap, each call raises at most
\* one Finished event; the entries of that event, and of the value the call
\* returns, are exactly the results of the runs the call itself dispatched,
\* one entry per run; and no event raised by another call carries any of
\* them.
C18_OwnResultsOnly ==
    \A c \in 1..Len(calls) : IsInvoke(c) =>
        /\ Cardinality(EventsOf(c, TxsFinished)) <= 1
        /\ \A j \in EventsOf(c, TxsFinished) :
               /\ Entries(events[j].arg) = OwnResults(c)
               /\ Len(events[j].arg.a) = Cardinality(OwnResults(c))
               /\ calls[c].value = events[j].arg
        /\ calls[c].pc = "resolved" =>
               /\ Entries(calls[c].value) = OwnResults(c)
               /\ EventsOf(c, TxsFinished) # {}
        /\ \A j \in 1..Len(events) : events[j].by # c =>
               Entries(events[j].arg) \cap OwnResults(c) = {}

\* Two batches in flight at once - the second was announced before the
\* first raised Finished - both resolved, one of them of two elements.
C18_Witness ==
    \E c, d \in 1..Len(calls) :
        /\ Overlapping(c, d)
        /\ calls[c].pc = "resolved" /\ calls[d].pc = "resolved"
        /\ BatchSize(c) + BatchSize(d) >= 3

\* The first element of invoke call c that does not normalize (a value
\* without toString); 0 if every element does.
FirstFailing(c) ==
    LET bad == {k \in 1..BatchSize(c) :
                   Normalize(Invocations(calls[c].input)[k]).threw}
    IN IF bad = {} THEN 0 ELSE CHOOSE k \in bad : \A m \in bad : k <= m

\* The runs call c dispatched.
RunsOf(c) == {r \in 1..Len(runs) : runs[r].by = c}

CallStep(op) ==
    /\ Len(calls') = Len(calls) + 1
    /\ calls'[Len(calls')].op = op
    /\ calls'[Len(calls')].class = Fisco

\* Call c is one of the invocation operations of the concrete connector.
IsInvocation(c) ==
    /\ calls[c].class = Fisco
    /\ calls[c].op \in {"invokeSmartContract", "queryState",
                        "generateRawTransaction", "sendRawTransaction"}

\* C20: only a getContext or releaseContext call changes the current
\* context; getContext installs and returns an object without properties
\* that is none of the contexts handed out before, releaseContext leaves
\* undefined.  Whether or not a context is live, each invocation operation
\* can be called as long as the harness has calls and runs left, a
\* queryState, generateRawTransaction or sendRawTransaction call dispatches
\* its one run and an invokeSmartContract call the runs of its elements,
\* and no run is handed the context.
C20_ContextIndependence ==
    /\ [][context' # context =>
              CallStep("getContext") \/ CallStep("releaseContext")]_vars
    /\ [][CallStep("getContext") =>
              /\ context' = calls'[Len(calls')].value
              /\ context'.t = "object" /\ context'.a = <<>>
              /\ context' # context
              /\ \A c \in 1..Len(calls) : calls[c].value # context']_vars
    /\ [][CallStep("releaseContext") => context' = JSUndefined]_vars
    /\ [](\A c \in 1..Len(calls) : IsInvocation(c) =>
              /\ calls[c].op # "invokeSmartContract" =>
                     Len(calls[c].promises) = 1
              /\ (IsInvoke(c) /\ FirstFailing(c) = 0) => AllDispatched(c)
              /\ calls[c].value.t # "object")
    /\ [](\A r \in 1..Len(runs) :
              runs[r].args.t # "object" /\ runs[r].fcn.t # "object")
    /\ []((cls = Fisco /\ CanCall /\ Len(runs) < MaxRuns) =>
              /\ ENABLED Fisco_invokeSmartContract
              /\ ENABLED Fisco_queryState
              /\ ENABLED Fisco_generateRawTransaction
              /\ ENABLED Fisco_sendRawTransaction)

\* A batch is in flight, one of its calls settled, and releaseContext was
\* called after the batch was dispatched.
C20_Witness ==
    \E c, d \in 1..Len(calls) :
        /\ c < d
        /\ IsInvoke(c) /\ calls[c].pc = "await" /\ BatchSize(c) >= 2
        /\ \E k \in 1..Len(calls[c].promises) : Settled(calls[c].promises[k])
        /\ IsReleaseContext(d) /\ context = JSUndefined

====
